---- MODULE Spec2Model ----
(***************************************************************************)
(* A model of visualization.py: compile_parsed_content, the single-pass    *)
(* compiler that turns the parsed blocks of a PDF into content entries and *)
(* resources.                                                              *)
(*                                                                         *)
(* Python strings that the code concatenates, trims, lower-cases or joins  *)
(* are sequences of one-character strings, so that str.strip, str.lower,   *)
(* str.format and " ".join are computed character by character.  Labels    *)
(* that the code only compares for equality (block types, content types)   *)
(* are TLA+ strings.  Python's 0-based block index idx is kept 0-based;    *)
(* parsed_content[idx + 1] is the block at index idx.                      *)
(***************************************************************************)
EXTENDS Integers, Sequences, FiniteSets, TLC

\* Longest parsed_content the model compiles.
MaxLen == 3

\* Largest block index for which a text is emitted and decoded on its own.
MaxIndex == 120

\* Longest parsed_content of each of two calls that run interleaved.
MaxPairLen == 2

\* Largest number of pages of a PDF file of the papers directory.
MaxPages == 3

----------------------------------------------------------------------------
(* String helpers *)

Digits == <<"0", "1", "2", "3", "4", "5", "6", "7", "8", "9">>

\* A formatting that writes the low digit first.
RECURSIVE str_LowDigitFirst(_)
str_LowDigitFirst(n) ==
    IF n < 10 THEN <<Digits[n + 1]>>
    ELSE <<Digits[(n % 10) + 1]>> \o str_LowDigitFirst(n \div 10)

\* "{}".format(n) / f"{n}" for a non-negative integer: its decimal digits.
RECURSIVE str(_)
str(n) ==
    IF n < 10 THEN <<Digits[n + 1]>>
    ELSE str(n \div 10) \o <<Digits[(n % 10) + 1]>>

Whitespace == {" ", "\t", "\n"}

RECURSIVE lstrip(_)
lstrip(s) ==
    IF s # <<>> /\ Head(s) \in Whitespace THEN lstrip(Tail(s)) ELSE s

RECURSIVE rstrip(_)
rstrip(s) ==
    IF s # <<>> /\ s[Len(s)] \in Whitespace
    THEN rstrip(SubSeq(s, 1, Len(s) - 1))
    ELSE s

\* str.strip(): leading and trailing whitespace removed.
strip(s) == rstrip(lstrip(s))

UpperCase == <<"A", "B", "C", "D", "E", "F", "G", "H", "I", "J", "K", "L", "M",
               "N", "O", "P", "Q", "R", "S", "T", "U", "V", "W", "X", "Y", "Z">>
LowerCase == <<"a", "b", "c", "d", "e", "f", "g", "h", "i", "j", "k", "l", "m",
               "n", "o", "p", "q", "r", "s", "t", "u", "v", "w", "x", "y", "z">>

\* str.lower(): every upper-case letter replaced by its lower-case letter.
lower(s) ==
    [i \in 1..Len(s) |->
        IF \E k \in 1..Len(UpperCase) : UpperCase[k] = s[i]
        THEN LowerCase[CHOOSE k \in 1..Len(UpperCase) : UpperCase[k] = s[i]]
        ELSE s[i]]

\* sep.join(parts)
RECURSIVE join(_, _)
join(sep, parts) ==
    IF parts = <<>> THEN <<>>
    ELSE IF Len(parts) = 1 THEN parts[1]
    ELSE parts[1] \o sep \o join(sep, Tail(parts))

\* The default block_link_format "[block:{}]" applied to idx.
block_link_format(idx) ==
    <<"[", "b", "l", "o", "c", "k", ":">> \o str(idx) \o <<"]">>

\* f"[image:{n}]" and f"[table:{n}]"
image_ref(n) == <<"[", "i", "m", "a", "g", "e", ":">> \o str(n) \o <<"]">>
table_ref(n) == <<"[", "t", "a", "b", "l", "e", ":">> \o str(n) \o <<"]">>

\* String literals of the code.
section_1 == <<"s", "e", "c", "t", "i", "o", "n", "_", "1">>
subsection_1 == <<"s", "u", "b">> \o section_1
none == <<"n", "o", "n", "e">>
EmptyStr == <<>>

\* Python's None in the integer field description_block.
None == -1

----------------------------------------------------------------------------
(* Inputs *)

Intro == <<"I", "n", "t", "r", "o">>
Bg == <<"B", "g">>
hello == <<"h", "e", "l", "l", "o">>
imgdata == <<"i", "m", "g", "d", "a", "t", "a">>
Fig1 == <<"F", "i", "g", " ", "1">>
introduction ==
    <<"i", "n", "t", "r", "o", "d", "u", "c", "t", "i", "o", "n">>
Methods == <<"M", "e", "t", "h", "o", "d", "s">>

\* The blocks a parsed_content is made of: dicts with an optional "type" and
\* an optional "text".  Texts are ordinary document text: none contains a
\* "[block:n]", "[image:n]" or "[table:n]" token.
Blocks ==
    { [type |-> "Section header", text |-> Intro],
      [type |-> "Section header", text |-> <<" ">> \o Bg],
      [type |-> "Section header"],
      [type |-> "Picture", text |-> imgdata],
      [type |-> "Table", text |-> <<" ", "t">>],
      [type |-> "Table"],
      [type |-> "Caption", text |-> Fig1],
      [type |-> "Caption", text |-> <<" ">>],
      [type |-> "Text", text |-> hello],
      [type |-> "Text", text |-> <<" ">>],
      [text |-> hello] }

\* The section_headers_mapping dicts: header text -> section name or "none".
Mappings ==
    { <<>>,
      (Intro :> introduction),
      (Intro :> Methods) @@ (Bg :> <<"N", "o", "n", "e">>) }

\* All sequences over S of length 0..n.
SeqsUpTo(S, n) == UNION { [1..k -> S] : k \in 0..n }

\* block.get("type", "")
get_type(block) == IF "type" \in DOMAIN block THEN block.type ELSE ""

\* A reading of the text that formats a missing text as Python formats None.
get_text_NoneAsStr(block) ==
    IF "text" \in DOMAIN block THEN block.text ELSE <<"N", "o", "n", "e">>

\* block.get("text") or "": a block with no "text" field stands for a dict
\* without the key and for one whose text is null; get returns None for both.
get_text(block) == IF "text" \in DOMAIN block THEN block.text ELSE EmptyStr

----------------------------------------------------------------------------
(* State of one call of compile_parsed_content *)

VARIABLES
    parsed_content,            \* argument: the list of blocks
    section_headers_mapping,   \* argument: the header mapping
    pc,                        \* "loop" | "done" (the call has returned)
    idx,                       \* index of the next block of the for loop
    content_sections,
    resources,
    current_section,
    current_section_block,
    current_subsection,
    current_subsection_block,
    current_text_buffer,
    image_counter,
    table_counter,
    last_resource              \* position in resources of the dict that
                               \* last_resource aliases; 0 is Python's None

\* State of one call of parse_block_links on a text the compiler emitted.
VARIABLES
    link_pc,                   \* "off" | "emit" | "parse" | "done"
    link_idx,                  \* index of the block the text is emitted for
    link_block,                \* that block
    link_text,                 \* argument text: the text to decode
    link_children              \* the list of Spans returned

linkVars == <<link_pc, link_idx, link_block, link_text, link_children>>

\* Calls of compile_parsed_content one after the other.
VARIABLES
    call_no,                   \* 1 for the first call, 2 for the second
    previous_output            \* what the previous call returned

callVars == <<call_no, previous_output>>

\* A second call of compile_parsed_content running at the same time: its
\* arguments, its position and its locals, as one record
\* [parsed_content, section_headers_mapping, pc, idx, locals].
VARIABLES other

\* The Dash application: the dcc.Store components, the outputs of the
\* callbacks and the PDF files the application reads.
VARIABLES
    selected_paper,            \* Store "selected-paper"
    current_page,              \* Store "current-page"
    total_pages,               \* Store "total-pages"
    block_pages_store,         \* Store "block-pages-store"
    compiled_structure_store,  \* Store "compiled-structure-store"
    compiled_structure_div,    \* indices of the block-link ids in the div
    page_info,                 \* children of "page-info"
    papers_dir                 \* paper -> pages of papers/{paper}.pdf, 0: unreadable

appVars ==
    <<selected_paper, current_page, total_pages, block_pages_store,
      compiled_structure_store, compiled_structure_div, page_info, papers_dir>>

\* The variables of the call of compile_parsed_content.
compileVars ==
    <<parsed_content, section_headers_mapping, pc, idx, content_sections,
      resources, current_section, current_section_block, current_subsection,
      current_subsection_block, current_text_buffer, image_counter,
      table_counter, last_resource>>

\* The variables of everything but the call of compile_parsed_content.
restVars == <<linkVars, callVars, other, appVars>>

vars ==
    <<parsed_content, section_headers_mapping, pc, idx, content_sections,
      resources, current_section, current_section_block, current_subsection,
      current_subsection_block, current_text_buffer, image_counter,
      table_counter, last_resource, restVars>>

\* The locals of the call as one record.
Locals ==
    [content_sections |-> content_sections,
     resources |-> resources,
     current_section |-> current_section,
     current_section_block |-> current_section_block,
     current_subsection |-> current_subsection,
     current_subsection_block |-> current_subsection_block,
     current_text_buffer |-> current_text_buffer,
     image_counter |-> image_counter,
     table_counter |-> table_counter,
     last_resource |-> last_resource]

\* The locals as initialised at the top of the function.
InitLocals ==
    [content_sections |-> <<>>,
     resources |-> <<>>,
     current_section |-> section_1,
     current_section_block |-> EmptyStr,
     current_subsection |-> subsection_1,
     current_subsection_block |-> EmptyStr,
     current_text_buffer |-> <<>>,
     image_counter |-> 1,
     table_counter |-> 1,
     last_resource |-> 0]

\* The content entry built from the current section/subsection state.
ContentEntry(st, text) ==
    [section |-> st.current_section,
     section_block |-> st.current_section_block,
     subsection |-> st.current_subsection,
     subsection_block |-> st.current_subsection_block,
     text |-> text]

\* A flush that does not test the buffer.
flush_current_text_Unguarded(st) ==
    [st EXCEPT
        !.content_sections =
            Append(@, ContentEntry(st, join(<<" ">>, st.current_text_buffer))),
        !.current_text_buffer = <<>>]

flush_current_text(st) ==
    IF st.current_text_buffer # <<>>
    THEN [st EXCEPT
            !.content_sections =
                Append(@, ContentEntry(st, join(<<" ">>, st.current_text_buffer))),
            !.current_text_buffer = <<>>]
    ELSE st

\* text wrapped in the block reference on both sides.
Wrapped(block_ref, text) == block_ref \o text \o block_ref

\* A header branch that updates the section state first and flushes after.
SectionHeaderBlock_UpdateThenFlush(st, mapping, block_ref, block_text) ==
    IF /\ block_text \in DOMAIN mapping
       /\ mapping[block_text] # EmptyStr
       /\ lower(mapping[block_text]) # none
    THEN flush_current_text(
            [st EXCEPT
                !.current_section = lower(mapping[block_text]),
                !.current_section_block = block_ref,
                !.current_subsection = subsection_1,
                !.current_subsection_block = EmptyStr])
    ELSE flush_current_text(
            [st EXCEPT
                !.current_subsection = block_text,
                !.current_subsection_block = block_ref])

\* A header branch whose mapped case resets the subsection title but keeps
\* the marker of the subsection header of the old section.
SectionHeaderBlock_KeepsSubsectionBlock(st, mapping, block_ref, block_text) ==
    IF /\ block_text \in DOMAIN mapping
       /\ mapping[block_text] # EmptyStr
       /\ lower(mapping[block_text]) # none
    THEN [flush_current_text(st) EXCEPT
            !.current_section = lower(mapping[block_text]),
            !.current_section_block = block_ref,
            !.current_subsection = subsection_1]
    ELSE [flush_current_text(st) EXCEPT
            !.current_subsection = block_text,
            !.current_subsection_block = block_ref]

\* A header branch whose mapped case keeps the subsection of the old section.
SectionHeaderBlock_KeepsSubsection(st, mapping, block_ref, block_text) ==
    IF /\ block_text \in DOMAIN mapping
       /\ mapping[block_text] # EmptyStr
       /\ lower(mapping[block_text]) # none
    THEN [flush_current_text(st) EXCEPT
            !.current_section = lower(mapping[block_text]),
            !.current_section_block = block_ref]
    ELSE [flush_current_text(st) EXCEPT
            !.current_subsection = block_text,
            !.current_subsection_block = block_ref]

\* A header branch whose unmapped case starts over in the default section.
SectionHeaderBlock_ResetsSection(st, mapping, block_ref, block_text) ==
    IF /\ block_text \in DOMAIN mapping
       /\ mapping[block_text] # EmptyStr
       /\ lower(mapping[block_text]) # none
    THEN [flush_current_text(st) EXCEPT
            !.current_section = lower(mapping[block_text]),
            !.current_section_block = block_ref,
            !.current_subsection = subsection_1,
            !.current_subsection_block = EmptyStr]
    ELSE [flush_current_text(st) EXCEPT
            !.current_section = section_1,
            !.current_section_block = EmptyStr,
            !.current_subsection = block_text,
            !.current_subsection_block = block_ref]

\* A header branch that also puts the header's own text in the buffer.
SectionHeaderBlock_AddsOwnText(st, mapping, block_ref, block_text) ==
    LET fl == [flush_current_text(st) EXCEPT
                 !.current_text_buffer = <<Wrapped(block_ref, block_text)>>]
    IN  IF /\ block_text \in DOMAIN mapping
           /\ mapping[block_text] # EmptyStr
           /\ lower(mapping[block_text]) # none
        THEN [fl EXCEPT
                !.current_section = lower(mapping[block_text]),
                !.current_section_block = block_ref,
                !.current_subsection = subsection_1,
                !.current_subsection_block = EmptyStr]
        ELSE [fl EXCEPT
                !.current_subsection = block_text,
                !.current_subsection_block = block_ref]

\* The "Section header" branch.
SectionHeaderBlock(st, mapping, block_ref, block_text) ==
    IF /\ block_text \in DOMAIN mapping
       /\ mapping[block_text] # EmptyStr
       /\ lower(mapping[block_text]) # none
    THEN [flush_current_text(st) EXCEPT
            !.current_section = lower(mapping[block_text]),
            !.current_section_block = block_ref,
            !.current_subsection = subsection_1,
            !.current_subsection_block = EmptyStr]
    ELSE [flush_current_text(st) EXCEPT
            !.current_subsection = block_text,
            !.current_subsection_block = block_ref]

\* A resource branch with one counter shared by images and tables.
ResourceBlock_SharedCounter(st, i, block_type, block_ref, block_text) ==
    LET resource_ref ==
            IF block_type = "Picture" THEN image_ref(st.image_counter)
            ELSE table_ref(st.image_counter)
        resource_entry ==
            [reference |-> resource_ref,
             content |-> block_text,
             content_type |-> IF block_type = "Picture" THEN "image" ELSE "table",
             description |-> EmptyStr,
             content_block |-> i,
             description_block |-> None]
    IN  [st EXCEPT
            !.image_counter = @ + 1,
            !.resources = Append(@, resource_entry),
            !.last_resource = Len(st.resources) + 1,
            !.current_text_buffer = Append(@, Wrapped(block_ref, resource_ref))]

\* A resource branch that leaves no link in the text.
ResourceBlock_NoLink(st, i, block_type, block_ref, block_text) ==
    LET resource_ref ==
            IF block_type = "Picture" THEN image_ref(st.image_counter)
            ELSE table_ref(st.table_counter)
        resource_entry ==
            [reference |-> resource_ref,
             content |-> block_text,
             content_type |-> IF block_type = "Picture" THEN "image" ELSE "table",
             description |-> EmptyStr,
             content_block |-> i,
             description_block |-> None]
    IN  [st EXCEPT
            !.image_counter = IF block_type = "Picture" THEN @ + 1 ELSE @,
            !.table_counter = IF block_type = "Picture" THEN @ ELSE @ + 1,
            !.resources = Append(@, resource_entry),
            !.last_resource = Len(st.resources) + 1]

\* The ("Picture", "Table") branch.
ResourceBlock(st, i, block_type, block_ref, block_text) ==
    LET resource_ref ==
            IF block_type = "Picture" THEN image_ref(st.image_counter)
            ELSE table_ref(st.table_counter)
        resource_entry ==
            [reference |-> resource_ref,
             content |-> block_text,
             content_type |-> IF block_type = "Picture" THEN "image" ELSE "table",
             description |-> EmptyStr,
             content_block |-> i,
             description_block |-> None]
    IN  [st EXCEPT
            !.image_counter = IF block_type = "Picture" THEN @ + 1 ELSE @,
            !.table_counter = IF block_type = "Picture" THEN @ ELSE @ + 1,
            !.resources = Append(@, resource_entry),
            !.last_resource = Len(st.resources) + 1,
            !.current_text_buffer = Append(@, Wrapped(block_ref, resource_ref))]

\* A Caption branch that assigns the caption whatever the description is.
CaptionBlock_Overwrite(st, i, block_ref, block_text) ==
    IF st.last_resource # 0
    THEN [st EXCEPT
            !.resources[st.last_resource].description =
                Wrapped(block_ref, block_text),
            !.resources[st.last_resource].description_block = i]
    ELSE IF block_text # EmptyStr
         THEN [st EXCEPT
                 !.current_text_buffer = Append(@, Wrapped(block_ref, block_text))]
         ELSE st

\* A Caption branch that keeps a bound caption in the flowing text too.
CaptionBlock_AlsoText(st, i, block_ref, block_text) ==
    IF st.last_resource # 0
    THEN IF st.resources[st.last_resource].description = EmptyStr
         THEN [st EXCEPT
                 !.resources[st.last_resource].description =
                     Wrapped(block_ref, block_text),
                 !.resources[st.last_resource].description_block = i,
                 !.current_text_buffer = Append(@, Wrapped(block_ref, block_text))]
         ELSE st
    ELSE IF block_text # EmptyStr
         THEN [st EXCEPT
                 !.current_text_buffer = Append(@, Wrapped(block_ref, block_text))]
         ELSE st

\* The "Caption" branch.
CaptionBlock(st, i, block_ref, block_text) ==
    IF st.last_resource # 0
    THEN IF st.resources[st.last_resource].description = EmptyStr
         THEN [st EXCEPT
                 !.resources[st.last_resource].description =
                     Wrapped(block_ref, block_text),
                 !.resources[st.last_resource].description_block = i]
         ELSE st
    ELSE IF block_text # EmptyStr
         THEN [st EXCEPT
                 !.current_text_buffer = Append(@, Wrapped(block_ref, block_text))]
         ELSE st

\* A branch of the other block types that does not test the text.
OtherBlock_AppendsEmpty(st, block_ref, block_text) ==
    [st EXCEPT
        !.current_text_buffer = Append(@, Wrapped(block_ref, block_text))]

\* The branch of all other block types.
OtherBlock(st, block_ref, block_text) ==
    IF block_text # EmptyStr
    THEN [st EXCEPT
            !.current_text_buffer = Append(@, Wrapped(block_ref, block_text))]
    ELSE st

\* One iteration of the for loop on the block at index i.
ProcessBlock(st, mapping, i, block) ==
    LET block_ref == block_link_format(i)
        block_type == get_type(block)
        raw_text == get_text(block)
        block_text == strip(raw_text)
    IN  IF block_type = "Section header"
        THEN SectionHeaderBlock(st, mapping, block_ref, block_text)
        ELSE IF block_type \in {"Picture", "Table"}
        THEN ResourceBlock(st, i, block_type, block_ref, block_text)
        ELSE IF block_type = "Caption"
        THEN CaptionBlock(st, i, block_ref, block_text)
        ELSE OtherBlock(st, block_ref, block_text)

\* A post-pass without the default entry.
PostPass_NoDefault(st) == flush_current_text(st)

\* After the loop: the last flush and the default entry of an empty content.
PostPass(st) ==
    LET fl == flush_current_text(st)
    IN  IF fl.content_sections = <<>>
        THEN [fl EXCEPT !.content_sections = Append(@, ContentEntry(fl, EmptyStr))]
        ELSE fl

\* The value returned by the call.
StructuredOutput(st) ==
    [content |-> st.content_sections, resources |-> st.resources]

\* The locals after the loop has processed the first n blocks.
RECURSIVE LoopState(_, _, _)
LoopState(blocks, mapping, n) ==
    IF n = 0 THEN InitLocals
    ELSE ProcessBlock(LoopState(blocks, mapping, n - 1), mapping, n - 1, blocks[n])

\* compile_parsed_content as a function of its arguments.
compile_parsed_content(blocks, mapping) ==
    StructuredOutput(PostPass(LoopState(blocks, mapping, Len(blocks))))

----------------------------------------------------------------------------
(* The call as a state machine: one action per branch of the loop body *)

Commit(st) ==
    /\ content_sections' = st.content_sections
    /\ resources' = st.resources
    /\ current_section' = st.current_section
    /\ current_section_block' = st.current_section_block
    /\ current_subsection' = st.current_subsection
    /\ current_subsection_block' = st.current_subsection_block
    /\ current_text_buffer' = st.current_text_buffer
    /\ image_counter' = st.image_counter
    /\ table_counter' = st.table_counter
    /\ last_resource' = st.last_resource

\* No call of parse_block_links is under way.
LinkOff ==
    /\ link_pc = "off"
    /\ link_idx = 0
    /\ link_block = <<>>
    /\ link_text = <<>>
    /\ link_children = <<>>

\* The first call of compile_parsed_content: nothing was returned before.
FirstCall ==
    /\ call_no = 1
    /\ previous_output = [content |-> <<>>, resources |-> <<>>]

\* No second call runs at the same time.
OtherOff ==
    other = [parsed_content |-> <<>>, section_headers_mapping |-> <<>>,
             pc |-> "off", idx |-> 0, locals |-> InitLocals]

\* The dropdown value and the stores that hold Python's None.
NoPaper == "None"

\* The layout as constructed (lines 367-371), with no PDF file looked at:
\* no paper selected, page 1 of 1, "Page ? of ?".
AppOff ==
    /\ selected_paper = NoPaper
    /\ current_page = 1
    /\ total_pages = 1
    /\ block_pages_store = <<>>
    /\ compiled_structure_store = [content |-> <<>>, resources |-> <<>>]
    /\ compiled_structure_div = {}
    /\ page_info = <<"P", "a", "g", "e", " ", "?", " ", "o", "f", " ", "?">>
    /\ papers_dir = <<>>

\* Nothing but the call of compile_parsed_content is under way.
RestOff == LinkOff /\ FirstCall /\ OtherOff /\ AppOff

Init ==
    /\ RestOff
    /\ parsed_content \in SeqsUpTo(Blocks, MaxLen)
    /\ section_headers_mapping \in Mappings
    /\ pc = "loop"
    /\ idx = 0
    /\ content_sections = InitLocals.content_sections
    /\ resources = InitLocals.resources
    /\ current_section = InitLocals.current_section
    /\ current_section_block = InitLocals.current_section_block
    /\ current_subsection = InitLocals.current_subsection
    /\ current_subsection_block = InitLocals.current_subsection_block
    /\ current_text_buffer = InitLocals.current_text_buffer
    /\ image_counter = InitLocals.image_counter
    /\ table_counter = InitLocals.table_counter
    /\ last_resource = InitLocals.last_resource

\* The block the loop is about to process.
block == parsed_content[idx + 1]

InLoop == pc = "loop" /\ idx < Len(parsed_content)

Iterate ==
    /\ Commit(ProcessBlock(Locals, section_headers_mapping, idx, block))
    /\ idx' = idx + 1
    /\ UNCHANGED <<parsed_content, section_headers_mapping, pc, restVars>>

SectionHeaderStep ==
    /\ InLoop
    /\ get_type(block) = "Section header"
    /\ Iterate

ResourceStep ==
    /\ InLoop
    /\ get_type(block) \in {"Picture", "Table"}
    /\ Iterate

CaptionStep ==
    /\ InLoop
    /\ get_type(block) = "Caption"
    /\ Iterate

OtherStep ==
    /\ InLoop
    /\ get_type(block) \notin {"Section header", "Picture", "Table", "Caption"}
    /\ Iterate

\* The loop is over: final flush, post-pass, return.
Return ==
    /\ pc = "loop"
    /\ idx = Len(parsed_content)
    /\ Commit(PostPass(Locals))
    /\ pc' = "done"
    /\ UNCHANGED <<parsed_content, section_headers_mapping, idx, restVars>>

Next ==
    \/ SectionHeaderStep
    \/ ResourceStep
    \/ CaptionStep
    \/ OtherStep
    \/ Return

Spec == Init /\ [][Next]_vars

\* The value the call returned (meaningful once pc = "done").
structured_output == StructuredOutput(Locals)

----------------------------------------------------------------------------
(* The same arguments compiled twice in succession *)

\* Locals that a new call would inherit from the locals of the call before
\* it, were the counters kept outside the function.
NewCallLocals_KeepsCounters(prev) ==
    [InitLocals EXCEPT
        !.image_counter = prev.image_counter,
        !.table_counter = prev.table_counter]

\* The locals of a new call, prev being the locals the previous call ended
\* with: every local is assigned afresh at the top of the function.
NewCallLocals(prev) == InitLocals

\* The caller keeps the value returned and calls again with the same
\* arguments.
CallAgain ==
    /\ pc = "done"
    /\ call_no = 1
    /\ previous_output' = structured_output
    /\ call_no' = 2
    /\ Commit(NewCallLocals(Locals))
    /\ pc' = "loop"
    /\ idx' = 0
    /\ UNCHANGED <<parsed_content, section_headers_mapping, linkVars, other, appVars>>

TwiceNext ==
    \/ Next
    \/ CallAgain

TwiceSpec == Init /\ [][TwiceNext]_vars

----------------------------------------------------------------------------
(* Two calls of compile_parsed_content whose steps interleave *)

PairBlocks ==
    { [type |-> "Section header", text |-> Intro],
      [type |-> "Picture", text |-> imgdata],
      [type |-> "Caption", text |-> Fig1],
      [type |-> "Text", text |-> hello] }

PairMappings == { <<>>, (Intro :> introduction) }

InterleavedInit ==
    /\ LinkOff
    /\ FirstCall
    /\ AppOff
    /\ parsed_content \in SeqsUpTo(PairBlocks, MaxPairLen)
    /\ section_headers_mapping \in PairMappings
    /\ pc = "loop"
    /\ idx = 0
    /\ content_sections = InitLocals.content_sections
    /\ resources = InitLocals.resources
    /\ current_section = InitLocals.current_section
    /\ current_section_block = InitLocals.current_section_block
    /\ current_subsection = InitLocals.current_subsection
    /\ current_subsection_block = InitLocals.current_subsection_block
    /\ current_text_buffer = InitLocals.current_text_buffer
    /\ image_counter = InitLocals.image_counter
    /\ table_counter = InitLocals.table_counter
    /\ last_resource = InitLocals.last_resource
    /\ \E blocks \in SeqsUpTo(PairBlocks, MaxPairLen), mapping \in PairMappings :
        other = [parsed_content |-> blocks, section_headers_mapping |-> mapping,
                 pc |-> "loop", idx |-> 0, locals |-> InitLocals]

\* Locals of a call whose counters would be those of the call running
\* beside it, were the counters shared between calls.
FrameLocals_SharedCounters(own, beside) ==
    [own EXCEPT
        !.image_counter = beside.image_counter,
        !.table_counter = beside.table_counter]

\* The locals a step of a call works on, own being the locals of that call
\* and beside those of the call running beside it: the names of the function
\* body, flush_current_text's nonlocal names included, are bound in the
\* frame of their own call.
FrameLocals(own, beside) == own

\* One iteration of the loop of the second call.
OtherIterate ==
    /\ other.pc = "loop"
    /\ other.idx < Len(other.parsed_content)
    /\ other' =
        [other EXCEPT
            !.locals = ProcessBlock(FrameLocals(other.locals, Locals),
                                    other.section_headers_mapping, other.idx,
                                    other.parsed_content[other.idx + 1]),
            !.idx = @ + 1]
    /\ UNCHANGED <<compileVars, linkVars, callVars, appVars>>

\* The second call flushes and returns.
OtherReturn ==
    /\ other.pc = "loop"
    /\ other.idx = Len(other.parsed_content)
    /\ other' =
        [other EXCEPT
            !.locals = PostPass(FrameLocals(other.locals, Locals)),
            !.pc = "done"]
    /\ UNCHANGED <<compileVars, linkVars, callVars, appVars>>

InterleavedNext ==
    \/ Next
    \/ OtherIterate
    \/ OtherReturn

InterleavedSpec == InterleavedInit /\ [][InterleavedNext]_vars

----------------------------------------------------------------------------
(* parse_block_links: the decoder of the "[block:n]" links *)

IsDigit(c) == \E d \in 1..Len(Digits) : Digits[d] = c

\* int(s) for a non-empty string of decimal digits.
RECURSIVE int(_)
int(s) ==
    LET last == (CHOOSE d \in 1..Len(Digits) : Digits[d] = s[Len(s)]) - 1
    IN  IF Len(s) = 1 THEN last
        ELSE 10 * int(SubSeq(s, 1, Len(s) - 1)) + last

\* Number of consecutive digits of s from position p on.
RECURSIVE DigitRun(_, _)
DigitRun(s, p) ==
    IF p <= Len(s) /\ IsDigit(s[p]) THEN 1 + DigitRun(s, p + 1) ELSE 0

\* The regular expression \[block:\d+\] matched at position p of s: the
\* position of the closing bracket, or 0 when there is no match at p.
MatchEnd(s, p) ==
    LET n == DigitRun(s, p + 7)
    IN  IF /\ p + 7 <= Len(s)
           /\ SubSeq(s, p, p + 6) = <<"[", "b", "l", "o", "c", "k", ":">>
           /\ n >= 1
           /\ p + 7 + n <= Len(s)
           /\ s[p + 7 + n] = "]"
        THEN p + 7 + n
        ELSE 0

\* re.split(r'(\[block:\d+\])', text) from position p on, cur being the
\* unmatched text collected since the last match.
RECURSIVE re_split(_, _, _)
re_split(s, p, cur) ==
    IF p > Len(s) THEN <<cur>>
    ELSE IF MatchEnd(s, p) > 0
    THEN <<cur, SubSeq(s, p, MatchEnd(s, p))>> \o re_split(s, MatchEnd(s, p) + 1, <<>>)
    ELSE re_split(s, p + 1, Append(cur, s[p]))

\* A decoder that gives the id to the part that follows a link, up to the
\* next link, and leaves the link itself plain.
parse_block_links_LinksFollowing(text, block_pages) ==
    LET parts == re_split(text, 1, <<>>)
    IN  [k \in 1..Len(parts) |->
            IF k > 1 /\ MatchEnd(parts[k - 1], 1) > 0
            THEN [children |-> parts[k],
                  id |-> [type |-> "block-link",
                          index |-> int(SubSeq(parts[k - 1], 8,
                                               MatchEnd(parts[k - 1], 1) - 1))]]
            ELSE [children |-> parts[k]]]

\* The children of parse_block_links: a Span with a block-link id for each
\* part that is a link, a plain Span for every other part.
parse_block_links(text, block_pages) ==
    LET parts == re_split(text, 1, <<>>)
    IN  [k \in 1..Len(parts) |->
            IF MatchEnd(parts[k], 1) > 0
            THEN [children |-> parts[k],
                  id |-> [type |-> "block-link",
                          index |-> int(SubSeq(parts[k], 8, MatchEnd(parts[k], 1) - 1))]]
            ELSE [children |-> parts[k]]]

----------------------------------------------------------------------------
(* build_nested_compiled_structure_html: the link of a resource *)

\* str.strip(chars): leading and trailing characters of the set removed.
RECURSIVE lstrip_chars(_, _)
lstrip_chars(s, chars) ==
    IF s # <<>> /\ Head(s) \in chars THEN lstrip_chars(Tail(s), chars) ELSE s

RECURSIVE rstrip_chars(_, _)
rstrip_chars(s, chars) ==
    IF s # <<>> /\ s[Len(s)] \in chars
    THEN rstrip_chars(SubSeq(s, 1, Len(s) - 1), chars)
    ELSE s

strip_chars(s, chars) == rstrip_chars(lstrip_chars(s, chars), chars)

\* int(s) raises ValueError unless s is a string of decimal digits.
IntRaises(s) == s = <<>> \/ \E p \in 1..Len(s) : ~ IsDigit(s[p])

\* The resource_link_props of a resource, from its content_block.  A
\* content_block is [int |-> n] when isinstance(content_block, int) and
\* [str |-> s] when it is a string; {} is the record with no field.
resource_link_props(content_block) ==
    LET truthy ==
            IF "int" \in DOMAIN content_block THEN content_block.int # 0
            ELSE content_block.str # <<>>
        stripped ==
            strip_chars(strip_chars(content_block.str,
                                    {"[", "b", "l", "o", "c", "k", ":"}),
                        {"]"})
        block_idx ==
            IF "int" \in DOMAIN content_block THEN content_block.int
            ELSE IF IntRaises(stripped) THEN 0
            ELSE int(stripped)
    IN  IF truthy
        THEN [id |-> [type |-> "block-link", index |-> block_idx]]
        ELSE [x \in {} |-> {}]

----------------------------------------------------------------------------
(* The Dash application: load_paper and update_page *)

\* segmentation_results: paper -> parsed_content, each block with an optional
\* "page_number".  Paper "b" quotes a link of another document in its text.
segmentation_results ==
    [a |-> << [type |-> "Section header", text |-> Intro, page_number |-> 1],
              [type |-> "Text", text |-> hello, page_number |-> 2],
              [type |-> "Picture", text |-> imgdata, page_number |-> 3] >>,
     b |-> << [type |-> "Text",
               text |-> <<"s", "e", "e", " ", "[", "b", "l", "o", "c", "k",
                          ":", "7", "]">>],
              [type |-> "Text", text |-> Fig1, page_number |-> 2] >>,
     c |-> << >>]

\* columns_mapping: paper -> section_headers_mapping.
columns_mapping == [a |-> (Intro :> introduction)]

\* available_papers = list(segmentation_results.keys())
available_papers == DOMAIN segmentation_results

\* block.get("page_number", 1)
get_page_number(blk) ==
    IF "page_number" \in DOMAIN blk THEN blk.page_number ELSE 1

\* The papers directories the application can run with: a PDF file that
\* cannot be opened (0), or a file with at least the pages its blocks are on.
PapersDirs ==
    { d \in [available_papers -> 0..MaxPages] :
        \A paper \in available_papers :
            d[paper] = 0 \/
            \A k \in 1..Len(segmentation_results[paper]) :
                get_page_number(segmentation_results[paper][k]) <= d[paper] }

\* get_pdf_page_count(paper): len(doc), or 1 when fitz.open raises.
get_pdf_page_count(paper) ==
    IF papers_dir[paper] = 0 THEN 1 ELSE papers_dir[paper]

\* block_pages as load_paper builds it: block index -> page number.
block_pages_of(blocks) ==
    [i \in 0..(Len(blocks) - 1) |-> get_page_number(blocks[i + 1])]

\* The dict as the Store holds it and hands it back as State: JSON object
\* keys are strings, so the key i has become str(i).
json_object(d) == [k \in { str(i) : i \in DOMAIN d } |-> d[int(k)]]

\* int(re.findall(r'\d+', str(marker))[0]): the first run of digits of a
\* marker; -1 stands for the exception raised when there is none.
RECURSIVE first_number(_, _)
first_number(marker, p) ==
    IF p > Len(marker) THEN -1
    ELSE IF IsDigit(marker[p])
    THEN int(SubSeq(marker, p, p + DigitRun(marker, p) - 1))
    ELSE first_number(marker, p + 1)

\* The indices of the block-link ids that
\* build_nested_compiled_structure_html puts in the div: the first
\* section_block of each section, every subsection_block, the links of every
\* text and the link of every resource.
block_link_ids(compiled_structure) ==
    LET content == compiled_structure.content
        first_of_section ==
            { n \in 1..Len(content) :
                \A m \in 1..(n - 1) : content[m].section # content[n].section }
        section_ids ==
            { first_number(content[n].section_block, 1) :
                n \in { m \in first_of_section : content[m].section_block # <<>> } }
        subsection_ids ==
            { first_number(content[n].subsection_block, 1) :
                n \in { m \in 1..Len(content) : content[m].subsection_block # <<>> } }
        text_ids ==
            UNION { { c.id.index :
                        c \in { parse_block_links(content[n].text, <<>>)[k] :
                                  k \in { j \in 1..Len(parse_block_links(content[n].text, <<>>)) :
                                            "id" \in DOMAIN parse_block_links(content[n].text, <<>>)[j] } } } :
                    n \in 1..Len(content) }
        resource_ids ==
            { resource_link_props([int |-> r.content_block]).id.index :
                r \in { compiled_structure.resources[k] :
                          k \in { j \in 1..Len(compiled_structure.resources) :
                                    "id" \in DOMAIN resource_link_props(
                                        [int |-> compiled_structure.resources[j].content_block]) } } }
    IN  (section_ids \cup subsection_ids \cup text_ids \cup resource_ids) \ {-1}

\* f"Page {new_page} of {total_pages}"
PageInfo(new_page, total) ==
    <<"P", "a", "g", "e", " ">> \o str(new_page) \o <<" ", "o", "f", " ">>
        \o str(total)

AppInit ==
    /\ LinkOff
    /\ FirstCall
    /\ OtherOff
    /\ parsed_content = <<>>
    /\ section_headers_mapping = <<>>
    /\ pc = "done"
    /\ idx = 0
    /\ content_sections = InitLocals.content_sections
    /\ resources = InitLocals.resources
    /\ current_section = InitLocals.current_section
    /\ current_section_block = InitLocals.current_section_block
    /\ current_subsection = InitLocals.current_subsection
    /\ current_subsection_block = InitLocals.current_subsection_block
    /\ current_text_buffer = InitLocals.current_text_buffer
    /\ image_counter = InitLocals.image_counter
    /\ table_counter = InitLocals.table_counter
    /\ last_resource = InitLocals.last_resource
    /\ selected_paper = NoPaper
    /\ current_page = 1
    /\ total_pages = 1
    /\ block_pages_store = <<>>
    /\ compiled_structure_store = [content |-> <<>>, resources |-> <<>>]
    /\ compiled_structure_div = {}
    /\ page_info = <<"P", "a", "g", "e", " ", "?", " ", "o", "f", " ", "?">>
    /\ papers_dir \in PapersDirs

\* The dropdown changes to paper, or is cleared (NoPaper).
load_paper ==
    \E paper \in available_papers \cup {NoPaper} :
        /\ IF paper = NoPaper
           THEN /\ compiled_structure_div' = {}
                /\ UNCHANGED <<selected_paper, compiled_structure_store,
                               block_pages_store, total_pages, current_page>>
           ELSE LET blocks == segmentation_results[paper]
                    mapping == IF paper \in DOMAIN columns_mapping
                               THEN columns_mapping[paper] ELSE <<>>
                    compiled_structure == compile_parsed_content(blocks, mapping)
                IN  /\ selected_paper' = paper
                    /\ compiled_structure_store' = compiled_structure
                    /\ block_pages_store' = json_object(block_pages_of(blocks))
                    /\ total_pages' = get_pdf_page_count(paper)
                    /\ current_page' = 1
                    /\ compiled_structure_div' = block_link_ids(compiled_structure)
        /\ UNCHANGED <<page_info, papers_dir, compileVars, linkVars, callVars, other>>

\* ctx.triggered[0]['prop_id'] of the block-link of index n: the id as JSON
\* with sorted keys, then the property.
prop_id(n) ==
    <<"{", "\"", "i", "n", "d", "e", "x", "\"", ":">> \o str(n)
        \o <<",", "\"", "t", "y", "p", "e", "\"", ":", "\"", "b", "l", "o",
             "c", "k", "-", "l", "i", "n", "k", "\"", "}", ".", "n", "_",
             "c", "l", "i", "c", "k", "s">>

\* s.split(sep)[1] up to the next occurrence of a character of stop, for a
\* sep that occurs in s: what follows the first sep, cut at the first stop.
RECURSIVE before_any(_, _)
before_any(s, stop) ==
    IF s = <<>> \/ Head(s) \in stop THEN <<>>
    ELSE <<Head(s)>> \o before_any(Tail(s), stop)

RECURSIVE after_first(_, _)
after_first(s, sep) ==
    IF Len(s) < Len(sep) THEN <<>>
    ELSE IF SubSeq(s, 1, Len(sep)) = sep THEN SubSeq(s, Len(sep) + 1, Len(s))
    ELSE after_first(Tail(s), sep)

\* .split('"index":')[1].split("}")[0].strip().split(',')[0]
block_index_of(triggered_id) ==
    before_any(
        strip(before_any(after_first(triggered_id,
                                     <<"\"", "i", "n", "d", "e", "x", "\"", ":">>),
                         {"}"})),
        {","})

\* The ids of the four buttons and the suffix of a prop_id.
first_page_btn ==
    <<"f", "i", "r", "s", "t", "-", "p", "a", "g", "e", "-", "b", "t", "n">>
prev_page_btn ==
    <<"p", "r", "e", "v", "-", "p", "a", "g", "e", "-", "b", "t", "n">>
next_page_btn ==
    <<"n", "e", "x", "t", "-", "p", "a", "g", "e", "-", "b", "t", "n">>
last_page_btn ==
    <<"l", "a", "s", "t", "-", "p", "a", "g", "e", "-", "b", "t", "n">>
block_link ==
    <<"b", "l", "o", "c", "k", "-", "l", "i", "n", "k">>
n_clicks ==
    <<".", "n", "_", "c", "l", "i", "c", "k", "s">>

\* sub in s
in_str(sub, s) ==
    \E p \in 1..(Len(s) - Len(sub) + 1) : SubSeq(s, p, p + Len(sub) - 1) = sub

\* The body of update_page once the paper is known to be selected:
\* new_page by the prop_id of the triggering component.
new_page_of(triggered_id) ==
    IF in_str(first_page_btn, triggered_id) THEN 1
    ELSE IF in_str(prev_page_btn, triggered_id)
         THEN IF current_page - 1 > 1 THEN current_page - 1 ELSE 1
    ELSE IF in_str(next_page_btn, triggered_id)
         THEN IF current_page + 1 < total_pages THEN current_page + 1
              ELSE total_pages
    ELSE IF in_str(last_page_btn, triggered_id) THEN total_pages
    ELSE IF in_str(block_link, triggered_id)
         THEN LET key == str(int(block_index_of(triggered_id)))
              IN  IF key \in DOMAIN block_pages_store
                  THEN block_pages_store[key]
                  ELSE current_page
    ELSE current_page

\* update_page raises PreventUpdate: no paper is selected.
PreventUpdate == selected_paper = NoPaper

\* update_page triggered by the component of prop_id triggered_id, past the
\* test that raises PreventUpdate.
update_page(triggered_id) ==
    /\ current_page' = new_page_of(triggered_id)
    /\ page_info' = PageInfo(new_page_of(triggered_id), total_pages)
    /\ UNCHANGED <<selected_paper, total_pages, block_pages_store,
                   compiled_structure_store, compiled_structure_div,
                   papers_dir, compileVars, linkVars, callVars, other>>

FirstPage ==
    /\ ~ PreventUpdate
    /\ update_page(first_page_btn \o n_clicks)

PrevPage ==
    /\ ~ PreventUpdate
    /\ update_page(prev_page_btn \o n_clicks)

NextPage ==
    /\ ~ PreventUpdate
    /\ update_page(next_page_btn \o n_clicks)

LastPage ==
    /\ ~ PreventUpdate
    /\ update_page(last_page_btn \o n_clicks)

\* A click on one of the block-link spans of the div.
BlockLinkClick ==
    /\ ~ PreventUpdate
    /\ \E n \in compiled_structure_div : update_page(prop_id(n))

AppNext ==
    \/ load_paper
    \/ FirstPage
    \/ PrevPage
    \/ NextPage
    \/ LastPage
    \/ BlockLinkClick

AppSpec == AppInit /\ [][AppNext]_vars

----------------------------------------------------------------------------
(* One text emitted by the compiler for the block at some index, decoded *)

\* The blocks whose text is emitted and decoded.  "[block:3" and "12" are
\* ordinary text that looks like part of a link; the last block's text holds
\* a whole link token of its own.
LinkBlocks ==
    { [type |-> "Text", text |-> hello],
      [type |-> "Text", text |-> Fig1],
      [type |-> "Text", text |-> <<"[", "b", "l", "o", "c", "k", ":", "3">>],
      [type |-> "Text", text |-> <<"1", "2">>],
      [type |-> "Text", text |-> <<" ">>],
      [type |-> "Picture", text |-> imgdata],
      [type |-> "Text",
       text |-> <<"s", "e", "e", " ", "[", "b", "l", "o", "c", "k", ":", "7", "]">>] }

LinkInit ==
    /\ link_pc = "emit"
    /\ link_idx \in 0..MaxIndex
    /\ link_block \in LinkBlocks
    /\ link_text = <<>>
    /\ link_children = <<>>
    /\ FirstCall
    /\ OtherOff
    /\ AppOff
    /\ parsed_content = <<>>
    /\ section_headers_mapping = <<>>
    /\ pc = "done"
    /\ idx = 0
    /\ content_sections = InitLocals.content_sections
    /\ resources = InitLocals.resources
    /\ current_section = InitLocals.current_section
    /\ current_section_block = InitLocals.current_section_block
    /\ current_subsection = InitLocals.current_subsection
    /\ current_subsection_block = InitLocals.current_subsection_block
    /\ current_text_buffer = InitLocals.current_text_buffer
    /\ image_counter = InitLocals.image_counter
    /\ table_counter = InitLocals.table_counter
    /\ last_resource = InitLocals.last_resource

\* The loop body runs on link_block at index link_idx and the text is
\* flushed: link_text is the text of the content entry.
EmitText ==
    /\ link_pc = "emit"
    /\ link_text' =
        PostPass(ProcessBlock(InitLocals, <<>>, link_idx, link_block))
            .content_sections[1].text
    /\ link_pc' = "parse"
    /\ UNCHANGED <<link_idx, link_block, link_children, compileVars, callVars, other, appVars>>

\* parse_block_links(text, block_pages) on that text.
ParseText ==
    /\ link_pc = "parse"
    /\ link_children' = parse_block_links(link_text, <<>>)
    /\ link_pc' = "done"
    /\ UNCHANGED <<link_idx, link_block, link_text, compileVars, callVars, other, appVars>>

LinkNext ==
    \/ EmitText
    \/ ParseText

LinkSpec == LinkInit /\ [][LinkNext]_vars

----------------------------------------------------------------------------
(* Vocabulary of the properties, in terms of the arguments of the call *)

\* Type and trimmed text of the block at (0-based) index i.
TypeAt(i) == get_type(parsed_content[i + 1])
TextAt(i) == strip(get_text(parsed_content[i + 1]))

ResourceTypes == {"Picture", "Table"}

\* Indices of the blocks processed so far that have a type in T.
Processed(T) == { i \in 0..(idx - 1) : TypeAt(i) \in T }

Min(S) == CHOOSE x \in S : \A y \in S : x <= y

\* parsed_content with the type of the block at index i replaced by "Text".
AsGenericText(i) ==
    [parsed_content EXCEPT ![i + 1] = [type |-> "Text", text |-> get_text(@)]]

\* At index i the loop meets a Caption with non-empty text that finds no
\* eligible resource: none appended yet, or the last one already described.
UnboundCaptionAt(i) ==
    LET st == LoopState(parsed_content, section_headers_mapping, i)
    IN  /\ TypeAt(i) = "Caption"
        /\ TextAt(i) # EmptyStr
        /\ \/ st.last_resource = 0
           \/ st.resources[st.last_resource].description # EmptyStr

----------------------------------------------------------------------------
(* C1 *)

\* C1: a Caption with non-empty text that finds no eligible resource (no
\* resource appended yet, or the most recent one already described) is
\* compiled as flowing text: the output equals the output of the same input
\* with that block's type replaced by a generic text type.
C1_UnboundCaptionIsText ==
    pc = "done" =>
        \A i \in 0..(Len(parsed_content) - 1) :
            UnboundCaptionAt(i) =>
                structured_output =
                    compile_parsed_content(AsGenericText(i), section_headers_mapping)

----------------------------------------------------------------------------
(* C2 *)

\* The Caption blocks processed so far that follow the resource with
\* content_block c with no other Picture or Table in between.
CaptionsFor(c) ==
    { j \in (c + 1)..(idx - 1) :
        /\ TypeAt(j) = "Caption"
        /\ \A m \in (c + 1)..(j - 1) : TypeAt(m) \notin ResourceTypes }

C2_BoundToFirstCaption ==
    \A k \in 1..Len(resources) :
        LET r == resources[k]
        IN  IF CaptionsFor(r.content_block) = {}
            THEN r.description = EmptyStr /\ r.description_block = None
            ELSE LET j == Min(CaptionsFor(r.content_block))
                 IN  /\ r.description_block = j
                     /\ r.description =
                            block_link_format(j) \o TextAt(j) \o block_link_format(j)

C2_DescriptionStable ==
    \A k \in 1..Len(resources) :
        resources[k].description # EmptyStr =>
            /\ resources'[k].description = resources[k].description
            /\ resources'[k].description_block = resources[k].description_block

\* C2: a resource's description is set at most once: once it is non-empty no
\* later block changes it or description_block; the caption that sets it is
\* the first Caption after the resource with no other Picture or Table in
\* between, and a resource with no such caption keeps an empty description
\* and an absent description_block.
C2_DescriptionSetOnce ==
    [] C2_BoundToFirstCaption /\ [][C2_DescriptionStable]_vars

\* A resource that a caption has described has met a later Caption.
C2_Witness ==
    /\ pc = "done"
    /\ \E k \in 1..Len(resources) :
        /\ resources[k].description_block # None
        /\ \E j \in Processed({"Caption"}) : j > resources[k].description_block

----------------------------------------------------------------------------
(* C3 *)

\* The resources of one content_type, in order.
OfType(ct) == SelectSeq(resources, LAMBDA r : r.content_type = ct)

\* C3: the image resources carry [image:1] .. [image:k] in order, k the number
\* of Picture blocks, and the table resources carry [table:1] .. [table:m], m
\* the number of Table blocks; neither counter affects the other.
C3_CountersIndependent ==
    LET images == OfType("image")
        tables == OfType("table")
    IN  /\ Len(images) = Cardinality(Processed({"Picture"}))
        /\ Len(tables) = Cardinality(Processed({"Table"}))
        /\ \A n \in 1..Len(images) :
            images[n].reference =
                <<"[", "i", "m", "a", "g", "e", ":">> \o str(n) \o <<"]">>
        /\ \A n \in 1..Len(tables) :
            tables[n].reference =
                <<"[", "t", "a", "b", "l", "e", ":">> \o str(n) \o <<"]">>

\* Pictures and a Table interleaved: two images around a table.
C3_Witness ==
    /\ pc = "done"
    /\ Len(OfType("image")) >= 2
    /\ \E k \in 2..(Len(resources) - 1) :
        /\ resources[k].content_type = "table"
        /\ resources[k - 1].content_type = "image"
        /\ resources[k + 1].content_type = "image"

----------------------------------------------------------------------------
(* C4, C5 *)

\* The header text t maps to a section name: it is a key of the mapping and
\* its value is not the "none" sentinel (in any letter case).
MapsToSection(t) ==
    /\ t \in DOMAIN section_headers_mapping
    /\ lower(section_headers_mapping[t]) # <<"n", "o", "n", "e">>

\* The loop is about to process a Section header block.
AtHeader == InLoop /\ TypeAt(idx) = "Section header"

C4_HeaderStep ==
    (AtHeader /\ MapsToSection(TextAt(idx))) =>
        /\ current_section' = lower(section_headers_mapping[TextAt(idx)])
        /\ section_headers_mapping[TextAt(idx)] = Methods =>
                current_section' = <<"m", "e", "t", "h", "o", "d", "s">>
        /\ current_section_block' = block_link_format(idx)
        /\ current_subsection' = <<"s", "u", "b", "s", "e", "c", "t", "i", "o", "n", "_", "1">>
        /\ current_subsection_block' = <<>>

\* The input [SectionHeader("Intro")@0, Text("hello")@1] with the mapping
\* {"Intro": "introduction"}.
C4_Input ==
    /\ parsed_content =
        << [type |-> "Section header", text |-> <<"I", "n", "t", "r", "o">>],
           [type |-> "Text", text |-> <<"h", "e", "l", "l", "o">>] >>
    /\ section_headers_mapping = (<<"I", "n", "t", "r", "o">> :> introduction)

C4_Scenario ==
    (pc = "done" /\ C4_Input) =>
        content_sections =
            << [section |-> <<"i", "n", "t", "r", "o", "d", "u", "c", "t", "i", "o", "n">>,
                section_block |-> <<"[", "b", "l", "o", "c", "k", ":", "0", "]">>,
                subsection |-> <<"s", "u", "b", "s", "e", "c", "t", "i", "o", "n", "_", "1">>,
                subsection_block |-> <<>>,
                text |-> <<"[", "b", "l", "o", "c", "k", ":", "1", "]",
                           "h", "e", "l", "l", "o",
                           "[", "b", "l", "o", "c", "k", ":", "1", "]">>] >>

\* C4: a Section header at index i whose trimmed text maps to a value other
\* than the "none" sentinel makes current_section the lower-cased mapped name
\* and current_section_block marker(i), and resets current_subsection to
\* "subsection_1" and current_subsection_block to empty; the input
\* [SectionHeader("Intro"), Text("hello")] with {"Intro": "introduction"}
\* compiles to exactly one entry: section "introduction", section_block
\* marker(0), subsection "subsection_1", subsection_block empty, text
\* marker(1)+"hello"+marker(1).
C4_MappedHeader ==
    [][C4_HeaderStep]_vars /\ [] C4_Scenario

\* The scenario has been compiled.
C4_Witness == pc = "done" /\ C4_Input

C5_HeaderStep ==
    (AtHeader /\ ~ MapsToSection(TextAt(idx))) =>
        /\ current_subsection' = TextAt(idx)
        /\ get_text(block) = <<" ", "B", "g">> => current_subsection' = <<"B", "g">>
        /\ current_subsection_block' = block_link_format(idx)
        /\ current_section' = current_section
        /\ current_section_block' = current_section_block

\* C5: a Section header at index i whose trimmed text is absent from the
\* mapping or maps to the "none" sentinel makes current_subsection the
\* (trimmed) header text and current_subsection_block marker(i), and leaves
\* current_section and current_section_block as they were.
C5_UnmappedHeader == [][C5_HeaderStep]_vars

\* An unmapped header has just been processed while current_section was the
\* section a mapped header had set before.
C5_Witness ==
    /\ idx >= 2
    /\ TypeAt(idx - 1) = "Section header"
    /\ ~ MapsToSection(TextAt(idx - 1))
    /\ current_section # section_1
    /\ current_section_block = <<"[", "b", "l", "o", "c", "k", ":", "0", "]">>
    /\ current_subsection = <<"B", "g">>
    /\ current_subsection_block = <<"[", "b", "l", "o", "c", "k", ":", "1", "]">>

----------------------------------------------------------------------------
(* C6, C7 *)

\* The loop is over and the call is about to flush and return.
AtReturn == pc = "loop" /\ idx = Len(parsed_content)

\* The entry with empty text that carries the current section state.
EmptyEntry ==
    [section |-> current_section,
     section_block |-> current_section_block,
     subsection |-> current_subsection,
     subsection_block |-> current_subsection_block,
     text |-> <<>>]

\* The input holds only headers and non-resource blocks with no text.
OnlyHeadersAndEmptyText ==
    \A i \in 0..(Len(parsed_content) - 1) :
        \/ TypeAt(i) = "Section header"
        \/ TypeAt(i) \notin ResourceTypes /\ TextAt(i) = <<>>

C6_Output ==
    pc = "done" =>
        /\ Len(content_sections) >= 1
        /\ OnlyHeadersAndEmptyText => content_sections = <<EmptyEntry>>
        /\ parsed_content = <<>> =>
            structured_output =
                [content |->
                    << [section |-> <<"s", "e", "c", "t", "i", "o", "n", "_", "1">>,
                        section_block |-> <<>>,
                        subsection |->
                            <<"s", "u", "b", "s", "e", "c", "t", "i", "o", "n", "_", "1">>,
                        subsection_block |-> <<>>,
                        text |-> <<>>] >>,
                 resources |-> <<>>]

\* Nothing was flushed during the loop and nothing is left to flush.
C6_ReturnStep ==
    (AtReturn /\ content_sections = <<>> /\ current_text_buffer = <<>>) =>
        /\ content_sections' = <<EmptyEntry>>
        /\ UNCHANGED <<current_section, current_section_block,
                       current_subsection, current_subsection_block>>

C7_NoEmptyText ==
    /\ pc = "loop" => \A k \in 1..Len(content_sections) : content_sections[k].text # <<>>
    /\ pc = "done" =>
        \A k \in 1..Len(content_sections) :
            content_sections[k].text = <<>> => content_sections = <<EmptyEntry>>

\* A flush (before a header is applied, or at the end of a non-empty content)
\* that finds the buffer empty.
C7_EmptyFlush ==
    /\ (AtHeader /\ current_text_buffer = <<>>) =>
            content_sections' = content_sections
    /\ (AtReturn /\ current_text_buffer = <<>> /\ content_sections # <<>>) =>
            content_sections' = content_sections

\* C7: flushing never appends an entry with empty text: an entry with empty
\* text exists only as the sole entry, added by the post-pass after the loop,
\* and a flush of an empty buffer leaves the content list unchanged.
C7_FlushNeverEmpty == [] C7_NoEmptyText /\ [][C7_EmptyFlush]_vars

\* Text, then two headers in a row: the second header and the final flush
\* found the buffer empty and the content non-empty.
C7_Witness ==
    /\ pc = "done"
    /\ Len(parsed_content) >= 3
    /\ TypeAt(Len(parsed_content) - 1) = "Section header"
    /\ TypeAt(Len(parsed_content) - 2) = "Section header"
    /\ Len(content_sections) = 1
    /\ content_sections[1].text # <<>>

----------------------------------------------------------------------------
(* C8, C9, C10 *)

\* The block indices of the links of a text, in order of occurrence.
LinkIndices(text) ==
    LET spans == SelectSeq(parse_block_links(text, <<>>),
                           LAMBDA c : "id" \in DOMAIN c)
    IN  [k \in 1..Len(spans) |-> spans[k].id.index]

\* The link indices of the first n content entries, read in order.
RECURSIVE ContentIndices(_)
ContentIndices(n) ==
    IF n = 0 THEN <<>>
    ELSE ContentIndices(n - 1) \o LinkIndices(content_sections[n].text)

\* C8: the block indices of the markers in the content entries' text, read
\* across all entries in order, are non-decreasing, and no Section header's
\* index is among them.
C8_OrderedNoHeaders ==
    LET all == ContentIndices(Len(content_sections))
    IN  /\ \A k \in 1..(Len(all) - 1) : all[k] <= all[k + 1]
        /\ \A k \in 1..Len(all) :
            all[k] \in 0..(idx - 1) /\ TypeAt(all[k]) # "Section header"

\* Text, a header with text of its own, text again: two entries, made of
\* blocks 0 and 2.
C8_Witness ==
    /\ pc = "done"
    /\ Len(parsed_content) = 3
    /\ TypeAt(1) = "Section header"
    /\ TextAt(1) # <<>>
    /\ Len(content_sections) = 2
    /\ ContentIndices(2) = <<0, 0, 2, 2>>

\* s occurs in text.
Contains(text, s) ==
    \E p \in 1..(Len(text) - Len(s) + 1) : SubSeq(text, p, p + Len(s) - 1) = s

\* The loop is about to process a Picture or Table block.
AtResource == InLoop /\ TypeAt(idx) \in ResourceTypes

C9_ResourceStep ==
    AtResource =>
        /\ Len(resources') = Len(resources) + 1
        /\ SubSeq(resources', 1, Len(resources)) = resources
        /\ LET r == resources'[Len(resources')]
           IN  /\ r.content = TextAt(idx)
               /\ r.description = <<>>
               /\ r.description_block = None
               /\ r.content_block = idx
               /\ current_text_buffer' =
                    Append(current_text_buffer,
                           block_link_format(idx) \o r.reference \o block_link_format(idx))

C9_Resources ==
    /\ Len(resources) = Cardinality(Processed(ResourceTypes))
    /\ \A k \in 1..(Len(resources) - 1) :
        resources[k].content_block < resources[k + 1].content_block
    /\ pc = "done" =>
        \A k \in 1..Len(resources) :
            Cardinality({ n \in 1..Len(content_sections) :
                Contains(content_sections[n].text, resources[k].reference) }) = 1

\* C9: every Picture or Table at index i appends exactly one resource with
\* content the trimmed text, empty description, absent description_block and
\* content_block i, and appends marker(i)+reference+marker(i) to the text
\* buffer; so the resources are as many as the Picture/Table blocks, their
\* content_block values increase strictly, and each reference occurs in
\* exactly one content entry's text.
C9_OneResourcePerBlock == [] C9_Resources /\ [][C9_ResourceStep]_vars

\* Two resources whose links ended up in two different entries.
C9_Witness ==
    /\ pc = "done"
    /\ Len(resources) = 2
    /\ Len(content_sections) = 2
    /\ resources[1].content = <<"t">>
    /\ Contains(content_sections[1].text, resources[1].reference)
    /\ Contains(content_sections[2].text, resources[2].reference)

\* The loop is about to process a Caption that will be bound to a resource.
AtBoundCaption ==
    /\ InLoop
    /\ TypeAt(idx) = "Caption"
    /\ last_resource # 0
    /\ resources[last_resource].description = <<>>

C10_CaptionStep ==
    AtBoundCaption =>
        /\ current_text_buffer' = current_text_buffer
        /\ content_sections' = content_sections

\* The input [Picture("imgdata")@0, Caption("Fig 1")@1].
C10_Input ==
    parsed_content =
        << [type |-> "Picture", text |-> <<"i", "m", "g", "d", "a", "t", "a">>],
           [type |-> "Caption", text |-> <<"F", "i", "g", " ", "1">>] >>

C10_Output ==
    /\ \A k \in 1..Len(resources) :
        resources[k].description_block # None =>
            /\ \A n \in 1..Len(content_sections) :
                \A m \in 1..Len(LinkIndices(content_sections[n].text)) :
                    LinkIndices(content_sections[n].text)[m] #
                        resources[k].description_block
            /\ \A n \in 1..Len(current_text_buffer) :
                \A m \in 1..Len(LinkIndices(current_text_buffer[n])) :
                    LinkIndices(current_text_buffer[n])[m] #
                        resources[k].description_block
    /\ (pc = "done" /\ C10_Input) =>
        /\ resources =
            << [reference |-> <<"[", "i", "m", "a", "g", "e", ":", "1", "]">>,
                content |-> <<"i", "m", "g", "d", "a", "t", "a">>,
                content_type |-> "image",
                description |-> <<"[", "b", "l", "o", "c", "k", ":", "1", "]",
                                  "F", "i", "g", " ", "1",
                                  "[", "b", "l", "o", "c", "k", ":", "1", "]">>,
                content_block |-> 0,
                description_block |-> 1] >>
        /\ Len(content_sections) = 1
        /\ content_sections[1].text =
            <<"[", "b", "l", "o", "c", "k", ":", "0", "]",
              "[", "i", "m", "a", "g", "e", ":", "1", "]",
              "[", "b", "l", "o", "c", "k", ":", "0", "]">>

\* C10: a Caption that is bound to a resource is not added to the text
\* buffer, so its index appears in no content entry's text; the input
\* [Picture("imgdata"), Caption("Fig 1")] compiles to the one resource and
\* the one content entry whose text is marker(0)+"[image:1]"+marker(0).
C10_BoundCaptionNotText == [] C10_Output /\ [][C10_CaptionStep]_vars

\* The scenario has been compiled.
C10_Witness == pc = "done" /\ C10_Input /\ resources[1].description_block = 1

----------------------------------------------------------------------------
(* C11, C12 *)

\* The text holds a link token \[block:\d+\] somewhere.
HasLink(t) == \E p \in 1..Len(t) : MatchEnd(t, p) > 0

\* The indices of the Spans of link_children that carry an id, in order.
ChildIndices ==
    LET spans == SelectSeq(link_children, LAMBDA c : "id" \in DOMAIN c)
    IN  [k \in 1..Len(spans) |-> spans[k].id.index]

\* The text was emitted for a block whose own text holds no link token.
EmittedSpan ==
    /\ link_pc = "done"
    /\ link_text # <<>>
    /\ ~ HasLink(get_text(link_block))

\* C11: a text span marker(i)+text+marker(i) that the compiler emits for the
\* block at index i, text holding no link token, decodes with
\* parse_block_links to links whose index is i and to no other index.
C11_RoundTrip ==
    EmittedSpan => ChildIndices = <<link_idx, link_idx>>

\* A three-digit index around a text that looks like the start of a link.
C11_Witness ==
    /\ EmittedSpan
    /\ link_idx = 107
    /\ get_text(link_block) = <<"[", "b", "l", "o", "c", "k", ":", "3">>
    /\ ChildIndices = <<107, 107>>

\* The part is one whole link token.
IsLink(part) == part # <<>> /\ MatchEnd(part, 1) = Len(part)

\* C12 as stated: the index of a link is attached to the segment that follows
\* the link, up to the next link; a text with no link is one plain Span.
C12_TargetOnFollowingSegment ==
    link_pc = "done" =>
        /\ \A k \in 1..(Len(link_children) - 1) :
            IsLink(link_children[k].children) =>
                /\ "id" \in DOMAIN link_children[k + 1]
                /\ link_children[k + 1].id.index =
                    int(SubSeq(link_children[k].children, 8,
                               Len(link_children[k].children) - 1))
        /\ ~ HasLink(link_text) => link_children = <<[children |-> link_text]>>

RECURSIVE ConcatChildren(_)
ConcatChildren(n) ==
    IF n = 0 THEN <<>>
    ELSE ConcatChildren(n - 1) \o link_children[n].children

\* The link token "[block:i]" written out for i < 1000.
LinkToken(i) ==
    <<"[", "b", "l", "o", "c", "k", ":">>
    \o (IF i >= 100 THEN <<Digits[(i \div 100) + 1]>> ELSE <<>>)
    \o (IF i >= 10 THEN <<Digits[((i \div 10) % 10) + 1]>> ELSE <<>>)
    \o <<Digits[(i % 10) + 1], "]">>

\* C12, amended: the index of a link is attached to the link token itself
\* (the Span whose text is "[block:i]"); the segments between the links are
\* plain Spans with no target; a text with no link is one plain Span.
C12_TargetOnLinkToken ==
    link_pc = "done" =>
        /\ ConcatChildren(Len(link_children)) = link_text
        /\ \A k \in 1..Len(link_children) :
            LET c == link_children[k]
            IN  /\ "id" \in DOMAIN c <=> IsLink(c.children)
                /\ "id" \in DOMAIN c =>
                    /\ c.id.type = "block-link"
                    /\ c.children = LinkToken(c.id.index)
                /\ "id" \notin DOMAIN c => ~ HasLink(c.children)
        /\ EmittedSpan =>
            link_children =
                << [children |-> <<>>],
                   [children |-> LinkToken(link_idx),
                    id |-> [type |-> "block-link", index |-> link_idx]],
                   [children |-> SubSeq(link_text, Len(LinkToken(link_idx)) + 1,
                                        Len(link_text) - Len(LinkToken(link_idx)))],
                   [children |-> LinkToken(link_idx),
                    id |-> [type |-> "block-link", index |-> link_idx]],
                   [children |-> <<>>] >>
        /\ ~ HasLink(link_text) => link_children = <<[children |-> link_text]>>

\* A text between two links has been decoded, and so has the empty text of
\* a default entry.
C12_Witness ==
    /\ EmittedSpan
    /\ link_idx = 12
    /\ Len(link_children) = 5
    /\ link_children[3] = [children |-> <<"h", "e", "l", "l", "o">>]
    /\ link_children[2].id.index = 12

----------------------------------------------------------------------------
(* C13 *)

\* The navigation target that content_block gives is i.
TargetIs(content_block, i) ==
    /\ "id" \in DOMAIN resource_link_props(content_block)
    /\ resource_link_props(content_block).id.index = i

\* C13: for every resource whose content_block is an integer block index
\* i >= 0 (i = 0 included) or the bracketed marker string of i, the
\* navigation target extracted is i; for a malformed content_block it is 0.
C13_ResourceTarget ==
    pc = "done" =>
        /\ \A k \in 1..Len(resources) :
            /\ TargetIs([int |-> resources[k].content_block],
                        resources[k].content_block)
            /\ TargetIs([str |-> block_link_format(resources[k].content_block)],
                        resources[k].content_block)
        /\ TargetIs([str |-> <<"a", "b", "c">>], 0)
        /\ TargetIs([str |-> <<"[", "b", "l", "o", "c", "k", ":", "]">>], 0)

----------------------------------------------------------------------------
(* C14 *)

\* C14: compiling the same arguments twice in succession returns identical
\* outputs: the counters, the section state and last_resource of the first
\* call do not carry over, and the numbering of the second call's resources
\* restarts at 1.
C14_SecondCallSameOutput ==
    call_no = 2 =>
        /\ pc = "done" => structured_output = previous_output
        /\ resources # <<>> =>
            resources[1].reference \in
                { <<"[", "i", "m", "a", "g", "e", ":", "1", "]">>,
                  <<"[", "t", "a", "b", "l", "e", ":", "1", "]">> }
        /\ idx = 0 =>
            /\ current_section = <<"s", "e", "c", "t", "i", "o", "n", "_", "1">>
            /\ current_section_block = <<>>
            /\ current_text_buffer = <<>>
            /\ last_resource = 0
            /\ image_counter = 1 /\ table_counter = 1

\* The second call has returned; the first had numbered two images, set a
\* section and described a resource.
C14_Witness ==
    /\ call_no = 2
    /\ pc = "done"
    /\ Len(previous_output.resources) = 2
    /\ previous_output.resources[2].reference =
        <<"[", "i", "m", "a", "g", "e", ":", "2", "]">>
    /\ previous_output.content[1].section_block # <<>>

----------------------------------------------------------------------------
(* C15 *)

\* parsed_content with an explicit empty text in every block that has none.
WithEmptyTexts ==
    [k \in 1..Len(parsed_content) |->
        IF "text" \in DOMAIN parsed_content[k] THEN parsed_content[k]
        ELSE [x \in DOMAIN parsed_content[k] \cup {"text"} |->
                IF x = "text" THEN <<>> ELSE parsed_content[k][x]]]

KnownTypes == {"Section header", "Picture", "Table", "Caption"}

\* parsed_content with the type t in every block whose type is missing or
\* is not one the compiler knows.
WithOtherType(t) ==
    [k \in 1..Len(parsed_content) |->
        IF get_type(parsed_content[k]) \in KnownTypes THEN parsed_content[k]
        ELSE [x \in DOMAIN parsed_content[k] \cup {"type"} |->
                IF x = "type" THEN t ELSE parsed_content[k][x]]]

\* While the call has not returned, a branch of the loop body takes the
\* block at idx, or no block is left and the call returns.
C15_Total ==
    /\ pc = "loop" =>
        \/ AtReturn
        \/ InLoop /\ TypeAt(idx) = "Section header"
        \/ InLoop /\ TypeAt(idx) \in ResourceTypes
        \/ InLoop /\ TypeAt(idx) = "Caption"
        \/ InLoop /\ TypeAt(idx) \notin KnownTypes
    /\ pc = "done" =>
        /\ idx = Len(parsed_content)
        /\ structured_output =
            compile_parsed_content(WithEmptyTexts, section_headers_mapping)
        /\ structured_output =
            compile_parsed_content(WithOtherType("Title"), section_headers_mapping)
        /\ structured_output =
            compile_parsed_content(WithOtherType("Text"), section_headers_mapping)

\* A step processes the block at idx and moves to the next one, or returns
\* when no block is left.
C15_EachBlockOnce ==
    /\ InLoop => idx' = idx + 1 /\ pc' = "loop"
    /\ AtReturn => idx' = idx /\ pc' = "done"
    /\ pc = "done" => UNCHANGED compileVars

\* C15: the compiler is total: for every sequence, the empty one included,
\* it processes each block once and returns; a block with absent or null
\* text is handled as one with the empty text, a block whose type is missing
\* or unknown as one of the generic text types.
C15_TotalFunction == [] C15_Total /\ [][C15_EachBlockOnce]_vars

\* A block without text and a block without type have been compiled.
C15_Witness ==
    /\ pc = "done"
    /\ \E k \in 1..Len(parsed_content) :
        "text" \notin DOMAIN parsed_content[k] /\ get_type(parsed_content[k]) = "Table"
    /\ \E k \in 1..Len(parsed_content) : "type" \notin DOMAIN parsed_content[k]
    /\ Len(resources) = 1
    /\ resources[1].content = <<>>

----------------------------------------------------------------------------
(* C16 *)

C16_SameAsAlone ==
    /\ pc = "done" =>
        structured_output =
            compile_parsed_content(parsed_content, section_headers_mapping)
    /\ other.pc = "done" =>
        StructuredOutput(other.locals) =
            compile_parsed_content(other.parsed_content,
                                   other.section_headers_mapping)

\* A step of one call leaves the arguments, the position and the locals of
\* the other call as they are.
C16_NoInterference ==
    /\ other' # other => UNCHANGED compileVars
    /\ ~ UNCHANGED compileVars => other' = other

\* C16: two calls whose steps interleave arbitrarily, on the same or on
\* different inputs, each return what they return when run alone: no step of
\* one reads or writes the section state, the text buffer, the counters,
\* last_resource, the content list or the resources list of the other.
C16_InterleavedRunsIndependent ==
    [] C16_SameAsAlone /\ [][C16_NoInterference]_vars

\* Both calls have returned on different inputs: the first numbered two
\* images, the second numbered its only image 1.
C16_Witness ==
    /\ pc = "done"
    /\ other.pc = "done"
    /\ Len(resources) = 2
    /\ resources[2].reference = <<"[", "i", "m", "a", "g", "e", ":", "2", "]">>
    /\ other.parsed_content # parsed_content
    /\ Len(other.locals.resources) = 1
    /\ other.locals.resources[1].reference =
        <<"[", "i", "m", "a", "g", "e", ":", "1", "]">>

----------------------------------------------------------------------------
(* C17 *)

\* The spans that the block at index i adds to the flowing text, told from
\* the arguments alone: the wrapped text of a generic block or of a Caption
\* that no resource precedes, the wrapped reference of a Picture or Table.
SpanOf(i) ==
    LET ref == block_link_format(i)
        earlier(t) == Cardinality({ j \in 0..(i - 1) : TypeAt(j) = t })
    IN  IF TypeAt(i) = "Section header" THEN <<>>
        ELSE IF TypeAt(i) = "Picture"
             THEN << ref \o image_ref(earlier("Picture") + 1) \o ref >>
        ELSE IF TypeAt(i) = "Table"
             THEN << ref \o table_ref(earlier("Table") + 1) \o ref >>
        ELSE IF TypeAt(i) = "Caption"
                /\ \E j \in 0..(i - 1) : TypeAt(j) \in ResourceTypes
             THEN <<>>
        ELSE IF TextAt(i) = EmptyStr THEN <<>>
        ELSE << ref \o TextAt(i) \o ref >>

\* The spans of the blocks at indices a..(b - 1), in order.
RECURSIVE SpansIn(_, _)
SpansIn(a, b) == IF a >= b THEN <<>> ELSE SpansIn(a, b - 1) \o SpanOf(b - 1)

\* The index after the last Section header processed so far, 0 if none.
AfterLastHeader ==
    LET hs == Processed({"Section header"})
    IN  IF hs = {} THEN 0 ELSE (CHOOSE h \in hs : \A g \in hs : g <= h) + 1

\* The entry a flush appends: the section state as it is before the step
\* and the spans accumulated since the previous header, single-space joined.
FlushedEntry ==
    [section |-> current_section,
     section_block |-> current_section_block,
     subsection |-> current_subsection,
     subsection_block |-> current_subsection_block,
     text |-> join(<<" ">>, SpansIn(AfterLastHeader, idx))]

C17_Buffer ==
    pc = "loop" => current_text_buffer = SpansIn(AfterLastHeader, idx)

C17_FlushStep ==
    /\ content_sections' # content_sections => AtHeader \/ AtReturn
    /\ AtHeader =>
        /\ current_text_buffer' = <<>>
        /\ content_sections' =
            IF current_text_buffer # <<>>
            THEN Append(content_sections, FlushedEntry)
            ELSE content_sections
    /\ AtReturn =>
        content_sections' =
            IF current_text_buffer # <<>> \/ content_sections = <<>>
            THEN Append(content_sections, FlushedEntry)
            ELSE content_sections

\* Text, text, a header mapped to "introduction", text: the first entry joins
\* the two spans before the header with one space and keeps the default
\* section; the text after the header is labelled "introduction".
C17_Scenario ==
    ( /\ pc = "done"
      /\ section_headers_mapping = (Intro :> introduction)
      /\ parsed_content =
            << [type |-> "Text", text |-> hello],
               [text |-> hello],
               [type |-> "Section header", text |-> Intro] >> ) =>
        content_sections =
            << [section |-> <<"s", "e", "c", "t", "i", "o", "n", "_", "1">>,
                section_block |-> <<>>,
                subsection |->
                    <<"s", "u", "b", "s", "e", "c", "t", "i", "o", "n", "_", "1">>,
                subsection_block |-> <<>>,
                text |->
                    <<"[", "b", "l", "o", "c", "k", ":", "0", "]">> \o hello
                    \o <<"[", "b", "l", "o", "c", "k", ":", "0", "]", " ">>
                    \o <<"[", "b", "l", "o", "c", "k", ":", "1", "]">> \o hello
                    \o <<"[", "b", "l", "o", "c", "k", ":", "1", "]">>] >>

\* C17: a content entry is appended only at a Section header or after the
\* last block; its text is the single-space join of the spans accumulated
\* since the previous header (or the start) and its four section/subsection
\* fields are the state before the header that triggered the flush.
C17_FlushBeforeUpdate ==
    [] (C17_Buffer /\ C17_Scenario) /\ [][C17_FlushStep]_vars

\* A header mapped to a section has just flushed two spans gathered under
\* the default section: the new entry is not labelled with the new section.
C17_Witness ==
    /\ pc = "loop"
    /\ idx = 3
    /\ TypeAt(2) = "Section header"
    /\ MapsToSection(TextAt(2))
    /\ Len(content_sections) = 1
    /\ content_sections[1].section # current_section
    /\ Len(SpansIn(0, 2)) = 2
    /\ current_text_buffer = <<>>

----------------------------------------------------------------------------
(* C18 *)

\* The loop is about to process a block that is no header, resource or
\* caption.
AtOther == InLoop /\ TypeAt(idx) \notin KnownTypes

\* Generic blocks whose text is absent, empty or whitespace only.
BlankBlocks ==
    { [type |-> "Text"],
      [type |-> "Text", text |-> <<>>],
      [type |-> "Title", text |-> <<" ", " ">>],
      [text |-> <<" ">>] }

\* At any point of the loop a blank generic block would change no local.
C18_BlankIsNoOp ==
    InLoop =>
        \A b \in BlankBlocks :
            ProcessBlock(Locals, section_headers_mapping, idx, b) = Locals

C18_Step ==
    /\ (AtOther /\ TextAt(idx) = EmptyStr) =>
        /\ current_text_buffer' = current_text_buffer
        /\ content_sections' = content_sections
        /\ resources' = resources
        /\ image_counter' = image_counter
        /\ table_counter' = table_counter
        /\ current_section' = current_section
        /\ current_section_block' = current_section_block
        /\ current_subsection' = current_subsection
        /\ current_subsection_block' = current_subsection_block
        /\ last_resource' = last_resource
    /\ (AtHeader /\ TextAt(idx) = EmptyStr) =>
        /\ current_text_buffer' = <<>>
        /\ current_text_buffer # <<>> =>
            Len(content_sections') = Len(content_sections) + 1
        /\ current_subsection' = <<>>
        /\ current_subsection_block' = block_link_format(idx)
    /\ (AtResource /\ TextAt(idx) = EmptyStr) =>
        /\ Len(resources') = Len(resources) + 1
        /\ resources'[Len(resources')].content = <<>>
        /\ resources'[Len(resources')].reference =
            IF TypeAt(idx) = "Picture" THEN image_ref(image_counter)
            ELSE table_ref(table_counter)
        /\ image_counter' + table_counter' = image_counter + table_counter + 1
        /\ last_resource' = Len(resources')

\* C18: a block that is no header, resource or caption and whose text is
\* empty, absent or whitespace only changes no local; a Section header with
\* empty text still flushes and updates the subsection, and a Picture or
\* Table with empty text still allocates a reference and appends a resource.
C18_BlankGenericIsNoOp ==
    [] C18_BlankIsNoOp /\ [][C18_Step]_vars

\* A Picture, a text, then a whitespace-only text: after the third block
\* the buffer still holds the two spans of the first two.
C18_Witness ==
    /\ pc = "loop"
    /\ idx = 3
    /\ TypeAt(0) = "Picture"
    /\ TypeAt(1) = "Text" /\ TextAt(1) = hello
    /\ TypeAt(2) = "Text" /\ TextAt(2) = <<>>
    /\ Len(current_text_buffer) = 2
    /\ Len(resources) = 1

----------------------------------------------------------------------------
(* C19 *)

\* marker is the marker of a Section header processed so far whose index is
\* smaller than every block index in text.
HeaderMarkerBefore(marker, text) ==
    /\ Len(LinkIndices(marker)) = 1
    /\ LET h == LinkIndices(marker)[1]
           links == LinkIndices(text)
       IN  /\ marker = block_link_format(h)
           /\ h \in Processed({"Section header"})
           /\ \A k \in 1..Len(links) : h < links[k]

\* C19: a non-empty section_block or subsection_block of a content entry is
\* the marker of a Section header block whose index is smaller than every
\* block index in the entry's text, and when both are non-empty the index of
\* the subsection_block is greater than that of the section_block.
C19_HeaderMarkersPrecedeText ==
    \A n \in 1..Len(content_sections) :
        LET entry == content_sections[n]
        IN  /\ entry.section_block # <<>> =>
                HeaderMarkerBefore(entry.section_block, entry.text)
            /\ entry.subsection_block # <<>> =>
                HeaderMarkerBefore(entry.subsection_block, entry.text)
            /\ (entry.section_block # <<>> /\ entry.subsection_block # <<>>) =>
                LinkIndices(entry.subsection_block)[1] >
                    LinkIndices(entry.section_block)[1]

\* A subsection header, then a header mapped to a section, then text: the
\* returned entry has the marker of block 1 as its section_block and no
\* subsection_block, the subsection of block 0 having been reset.
C19_Witness ==
    /\ pc = "done"
    /\ Len(parsed_content) = 3
    /\ TypeAt(0) = "Section header" /\ ~ MapsToSection(TextAt(0))
    /\ TypeAt(1) = "Section header" /\ MapsToSection(TextAt(1))
    /\ Len(content_sections) = 1
    /\ content_sections[1].section_block = block_link_format(1)
    /\ content_sections[1].subsection_block = <<>>
    /\ LinkIndices(content_sections[1].text) = <<2, 2>>

----------------------------------------------------------------------------
(* C20 *)

\* C20: after any sequence of page-navigation events handled by update_page
\* following load_paper, the stored current page stays within
\* 1..total_pages.
C20_PageInRange ==
    selected_paper # NoPaper => current_page \in 1..total_pages

====
